---- MODULE Spec2Model ----
(***************************************************************************)
(* Verification model of the contract-event reconciliation pipeline:       *)
(*   services/contract_listener.rs  (ContractEventListener)                *)
(*   services/event_indexer.rs      (EventIndexer)                         *)
(*   services/alert_service.rs      (AlertService)                         *)
(*   jobs/contract_event_listener.rs (ContractEventListenerJob)            *)
(*   api/contract_events.rs         (HTTP handlers)                        *)
(* The chain is a fixed finite list of contract events; the RPC endpoint,  *)
(* the database (possible failure of each statement), the clock and the    *)
(* external snapshot builder are the environment.                          *)
(***************************************************************************)
EXTENDS Integers, Sequences, FiniteSets, Bags, TLC

(* ------------------------------ bounds --------------------------------- *)
\* highest ledger the chain closes
MaxLedger == 3
\* highest ledger the chain closes while the indexer is in use (SpecStore)
MaxStoreLedger == 2
\* most ledgers an RPC node lags behind the chain head
MaxLag == 1
\* clock ticks that pass while the listener runs
MaxTime == 1

(* ------------------------------ options -------------------------------- *)
\* Option<T>: None is the empty sequence, Some(v) a one-element sequence
None == <<>>
Some(v) == <<v>>
IsSome(o) == o # <<>>
Unwrap(o) == o[1]
unwrap_or(o, d) == IF IsSome(o) THEN Unwrap(o) ELSE d

RECURSIVE SeqToSet(_)
SeqToSet(s) == IF s = <<>> THEN {} ELSE {Head(s)} \cup SeqToSet(Tail(s))

(* ------------------------------ the clock ------------------------------ *)
\* the clock counts half days
DayLen == 2
DayOf(t) == t \div DayLen
TimeOfDay(t) == t % DayLen

\* a DateTime<Utc> bound to a statement is stored as RFC 3339 text,
\* "<date>T<time>+00:00": the date, the letter T, the time of day
to_rfc3339(t) == <<DayOf(t), "T", TimeOfDay(t)>>

\* DateTime<Utc> read back from the created_at text
from_rfc3339(text) == text[1] * DayLen + text[3]

\* SQLite's datetime('now', '-N days') is the text "<date> <time>": the
\* date, a space, the time of day
sqlite_datetime(t, days) == <<DayOf(t - days * DayLen), " ", TimeOfDay(t - days * DayLen)>>

\* comparison of two such texts, byte by byte (' ' is 32, 'T' is 84)
ByteOf(c) == IF c = " " THEN 32 ELSE 84
TextLess(a, b) ==
    \/ a[1] < b[1]
    \/ a[1] = b[1] /\ ByteOf(a[2]) < ByteOf(b[2])
    \/ a[1] = b[1] /\ a[2] = b[2] /\ a[3] < b[3]

(* ------------------------------ the chain ------------------------------ *)
\* u64::to_string / str::parse::<u64> on the ledger numbers of the model
DecStr == <<"1", "2", "3", "4", "5", "6">>
to_string(n) == IF n = 0 THEN "0" ELSE DecStr[n]
parse_u64(s) ==
    IF s = "0" THEN Some(0)
    ELSE IF \E n \in DOMAIN DecStr : DecStr[n] = s
         THEN Some(CHOOSE n \in DOMAIN DecStr : DecStr[n] = s)
         ELSE None

\* ContractEvent as delivered by getEvents: at is the ledger that holds it,
\* ledger the string the RPC sends, value the JSON payload (absent keys None)
RawEvent(id, at, topic, epoch, hash, ts) ==
    [id |-> id, at |-> at, ledger |-> to_string(at), contract_id |-> "C",
     topic |-> topic, value |-> [epoch |-> epoch, hash |-> hash, timestamp |-> ts]]

\* the events the contract emits, in ledger order (intra-ledger order as the
\* RPC returns it); backend snapshot of epoch 1 has hash "a"
ChainSeq ==
    << RawEvent("e1", 1, <<"SNAP_SUB">>, Some(1), Some("a"), Some(7)),
       RawEvent("e2", 2, <<"SNAP_SUB">>, Some(1), Some("b"), Some(7)),
       RawEvent("e4", 2, <<"OTHER">>, None, None, None),
       RawEvent("e3", 3, <<"x", "SNAP_SUB">>, Some(2), Some("a"), Some(8)),
       RawEvent("e5", 3, <<"SNAP_SUB">>, None, Some("a"), Some(9)) >>

ChainEvents == SeqToSet(ChainSeq)

(* ------------------------------ state ---------------------------------- *)
VARIABLES
    latest,          \* chain: sequence number of the last closed ledger
    now,             \* wall clock (Utc::now())
    start_ledger,    \* ListenerConfig.start_ledger : Option<u64>
    last_ledger,     \* ContractEventListener.last_ledger
    pc,              \* "new" (constructed), "running" (in the loop), "stopped",
                     \* "unconfigured" (from_env returned an Err)
    contract_events, \* table contract_events: bag of rows
    snapshots,       \* table snapshots: epoch -> row, for the epochs built
    init_ledger,     \* history: cursor value adopted by start_listening
    attempted,       \* history: raw events passed to process_event
    ingested,        \* history: ids written to contract_events and not reaped
    last_op,         \* history: what the last operation did
    stopped_at,      \* history: cursor of the previous listener when it ended
    last_verdict,    \* history: epoch -> verdict of the last event verified
    cancel_requested \* environment: shutdown of the listener has been requested

vars == <<latest, now, start_ledger, last_ledger, pc, contract_events, snapshots,
          init_ledger, attempted, ingested, last_op, stopped_at, last_verdict,
          cancel_requested>>

(* --------------------------- the event store --------------------------- *)
\* a table is a bag of rows: the rows of t that satisfy Keep(row)
Where(t, Keep(_)) == [r \in {x \in BagToSet(t) : Keep(x)} |-> t[r]]

\* rows of t whose primary key differs from id
DeleteId(t, id) == Where(t, LAMBDA r : r.id # id)

\* variant: a plain INSERT, the conflicting row is kept
InsertKeepingOld(t, row) == t (+) SetToBag({row})

\* INSERT OR REPLACE INTO contract_events: the row that conflicts on the
\* primary key id is deleted, then the new row is inserted
InsertOrReplace(t, row) == DeleteId(t, row.id) (+) SetToBag({row})

RowIds(t) == {r.id : r \in BagToSet(t)}
RowsOf(t, id) == {r \in BagToSet(t) : r.id = id}

\* variant: the timestamp of the event is not bound
SnapshotRowNoTimestamp(ev, t) ==
    [id |-> ev.transaction_hash, contract_id |-> ev.contract_id,
     event_type |-> ev.event_type, epoch |-> Some(ev.epoch), hash |-> Some(ev.hash),
     timestamp |-> None, ledger |-> ev.ledger,
     transaction_hash |-> ev.transaction_hash, created_at |-> t,
     verification_status |-> None, verified_at |-> None]

\* store_snapshot_event: the columns bound are id..created_at; the columns
\* not named (verification_status, verified_at) take their default NULL
SnapshotRow(ev, t) ==
    [id |-> ev.transaction_hash, contract_id |-> ev.contract_id,
     event_type |-> ev.event_type, epoch |-> Some(ev.epoch), hash |-> Some(ev.hash),
     timestamp |-> Some(ev.timestamp), ledger |-> ev.ledger,
     transaction_hash |-> ev.transaction_hash, created_at |-> t,
     verification_status |-> None, verified_at |-> None]

store_snapshot_event(t, ev, clock) == InsertOrReplace(t, SnapshotRow(ev, clock))

(* ----------------------------- the alerts ----------------------------- *)
\* AlertService::alert_verification_failed / alert_missing_snapshot: the Alert
\* each of them passes to send_alert
alert_verification_failed(epoch, expected_hash, actual_hash) ==
    [alert_type |-> "VerificationFailed", severity |-> "Critical", epoch |-> epoch,
     expected_hash |-> Some(expected_hash), actual_hash |-> Some(actual_hash)]

alert_missing_snapshot(epoch) ==
    [alert_type |-> "MissingSnapshot", severity |-> "Warning", epoch |-> epoch,
     expected_hash |-> None, actual_hash |-> None]

\* verify_snapshot_with_backend, the mismatch branch: the hashes are logged and
\* `// TODO: Send alert via AlertService` follows; no alert is sent
AlertsOnMismatch(epoch, backend_hash, on_chain_hash) == <<>>

\* verify_snapshot_with_backend, the branch without a snapshot row: a warning
\* is logged and `// TODO: Send missing snapshot alert` follows
AlertsOnMissing(epoch) == <<>>

(* ---------------------------- the verifier ----------------------------- *)
\* UPDATE snapshots SET verification_status = ?, verified_at = ? WHERE epoch = ?
update_verification_status(sn, epoch, is_verified, clock) ==
    [sn EXCEPT ![epoch].verification_status =
                   Some(IF is_verified THEN "verified" ELSE "failed"),
               ![epoch].verified_at = Some(clock)]

\* verify_snapshot_with_backend on the tables db = [ev, sn]; fault names the
\* statement the database fails ("query", "update") or "none"
verify_snapshot_with_backend(db, epoch, on_chain_hash, fault, clock) ==
    IF fault = "query" THEN [db |-> db, what |-> "query_err", alerts |-> <<>>]
    ELSE IF epoch \in DOMAIN db.sn
    THEN LET backend_hash == db.sn[epoch].hash
             is_verified == backend_hash = on_chain_hash
             sent == IF is_verified THEN <<>>
                     ELSE AlertsOnMismatch(epoch, backend_hash, on_chain_hash)
         IN IF fault = "update" THEN [db |-> db, what |-> "update_err", alerts |-> sent]
            ELSE [db |-> [db EXCEPT !.sn = update_verification_status(
                                               db.sn, epoch, is_verified, clock)],
                  what |-> IF is_verified THEN "verified" ELSE "mismatch",
                  alerts |-> sent]
    ELSE [db |-> db, what |-> "no_snapshot", alerts |-> AlertsOnMissing(epoch)]

(* ---------------------------- the listener ----------------------------- *)
\* variant: the snapshot is verified although the event was not stored
process_snapshot_event_verify_unstored(db, event, fault, clock) ==
    LET v == event.value
        ledger == parse_u64(event.ledger)
    IN IF ~IsSome(v.epoch) \/ ~IsSome(v.hash) \/ ~IsSome(v.timestamp) \/ ~IsSome(ledger)
       THEN [db |-> db, what |-> "decode_err", alerts |-> <<>>]
       ELSE LET snapshot_event ==
                    [epoch |-> Unwrap(v.epoch), hash |-> Unwrap(v.hash),
                     timestamp |-> Unwrap(v.timestamp), ledger |-> Unwrap(ledger),
                     transaction_hash |-> event.id, contract_id |-> event.contract_id,
                     event_type |-> "SNAP_SUB"]
            IN IF fault = "store"
               THEN [db |-> verify_snapshot_with_backend(
                                db, snapshot_event.epoch, snapshot_event.hash,
                                "none", clock).db,
                     what |-> "store_err", alerts |-> <<>>]
               ELSE verify_snapshot_with_backend(
                        [db EXCEPT !.ev = store_snapshot_event(db.ev, snapshot_event, clock)],
                        snapshot_event.epoch, snapshot_event.hash, fault, clock)

\* process_snapshot_event: decode, store, verify; `?` leaves at the first error
process_snapshot_event(db, event, fault, clock) ==
    LET v == event.value
        ledger == parse_u64(event.ledger)
    IN IF ~IsSome(v.epoch) \/ ~IsSome(v.hash) \/ ~IsSome(v.timestamp) \/ ~IsSome(ledger)
       THEN [db |-> db, what |-> "decode_err", alerts |-> <<>>]
       ELSE LET snapshot_event ==
                    [epoch |-> Unwrap(v.epoch), hash |-> Unwrap(v.hash),
                     timestamp |-> Unwrap(v.timestamp), ledger |-> Unwrap(ledger),
                     transaction_hash |-> event.id, contract_id |-> event.contract_id,
                     event_type |-> "SNAP_SUB"]
            IN IF fault = "store" THEN [db |-> db, what |-> "store_err", alerts |-> <<>>]
               ELSE verify_snapshot_with_backend(
                        [db EXCEPT !.ev = store_snapshot_event(db.ev, snapshot_event, clock)],
                        snapshot_event.epoch, snapshot_event.hash, fault, clock)

\* variant: every event is decoded as a snapshot event
process_event_any_topic(db, event, fault, clock) ==
    process_snapshot_event(db, event, fault, clock)

\* process_event: only events with a SNAP_SUB topic are processed
process_event(db, event, fault, clock) ==
    IF "SNAP_SUB" \in SeqToSet(event.topic)
    THEN process_snapshot_event(db, event, fault, clock)
    ELSE [db |-> db, what |-> "ignored", alerts |-> <<>>]

\* outcomes of process_event that are Ok(..) / that wrote the event row
OkOutcomes == {"ignored", "verified", "mismatch", "no_snapshot"}
StoredOutcomes == {"verified", "mismatch", "no_snapshot", "query_err", "update_err"}

\* variant: the loop ends at the first event that fails
RECURSIVE ProcessBatchUntilError(_, _, _, _, _)
ProcessBatchUntilError(db, events, faults, i, clock) ==
    IF i > Len(events) THEN [db |-> db, results |-> <<>>, alerts |-> <<>>]
    ELSE LET one == process_event(db, events[i], faults[i], clock)
             rest == ProcessBatchUntilError(one.db, events, faults, i + 1, clock)
         IN IF one.what \in OkOutcomes
            THEN [db |-> rest.db, results |-> <<one.what>> \o rest.results,
                  alerts |-> one.alerts \o rest.alerts]
            ELSE [db |-> one.db, results |-> <<one.what>>, alerts |-> one.alerts]

\* variant: the events of a batch are written last to first
RECURSIVE ProcessBatchFirstWins(_, _, _, _, _)
ProcessBatchFirstWins(db, events, faults, i, clock) ==
    IF i > Len(events) THEN [db |-> db, results |-> <<>>, alerts |-> <<>>]
    ELSE LET rest == ProcessBatchFirstWins(db, events, faults, i + 1, clock)
             one == process_event(rest.db, events[i], faults[i], clock)
         IN [db |-> one.db, results |-> <<one.what>> \o rest.results,
             alerts |-> one.alerts \o rest.alerts]

\* the for loop of poll_for_events over events[i..]: every event is passed to
\* process_event, an Err is logged and the loop continues
RECURSIVE ProcessBatch(_, _, _, _, _)
ProcessBatch(db, events, faults, i, clock) ==
    IF i > Len(events) THEN [db |-> db, results |-> <<>>, alerts |-> <<>>]
    ELSE LET one == process_event(db, events[i], faults[i], clock)
             rest == ProcessBatch(one.db, events, faults, i + 1, clock)
         IN [db |-> rest.db, results |-> <<one.what>> \o rest.results,
             alerts |-> one.alerts \o rest.alerts]

\* the RPC endpoint: getLatestLedger answers an error or the head of some
\* node, which may lag up to MaxLag ledgers behind the chain
LatestLedgerAnswers == {None} \cup {Some(n) : n \in {m \in 0..latest : latest - m <= MaxLag}}

\* getEvents(start, end): the contract's events of the ledgers start..end
InRange(start, end) == SelectSeq(ChainSeq, LAMBDA e : start <= e.at /\ e.at <= end)

\* ... a JSON-RPC answer carries an error or a result: the call fails, or it
\* returns those events, possibly with an event of Redelivered once more, or
\* with an element that is not a ContractEvent
Redelivered == {ChainSeq[1]}
\* a JSON object without the fields id and value
Garbled == [at |-> 0, ledger |-> "0", contract_id |-> "C", topic |-> <<"SNAP_SUB">>]
EventsAnswers(start, end) ==
    {None} \cup {Some(InRange(start, end))}
           \cup {Some(InRange(start, end) \o <<e>>) : e \in {x \in Redelivered : x.at <= end}}
           \cup {Some(InRange(start, end) \o <<Garbled>>)}

\* serde_json::from_value::<Vec<ContractEvent>>(result): every element must
\* carry the fields of struct ContractEvent, else the whole payload is refused
ContractEventFields == {"id", "ledger", "contract_id", "topic", "value"}
from_value(result) ==
    IF \A i \in DOMAIN result : ContractEventFields \subseteq DOMAIN result[i]
    THEN Some(result) ELSE None

\* the database fails one kind of statement for no event of a batch, for
\* its first event, or for all of them
FaultKinds == {"store", "query", "update"}
FaultSets(n) == {{}, 1..n} \cup {{i} : i \in {1} \cap 1..n}
FaultAt(kind, F, n) == [i \in 1..n |-> IF i \in F THEN kind ELSE "none"]

(* ------------------------------ Init ----------------------------------- *)
\* the snapshots row the snapshot builder writes for an epoch
BuiltSnapshot(epoch) ==
    [hash |-> "a", verification_status |-> None, verified_at |-> None]

\* ContractEventListener::new: last_ledger is start_ledger, or 0 when unset
NewLastLedger(cfg_start) == unwrap_or(cfg_start, 0)

\* CONTRACT_EVENT_START_LEDGER: unset, or a ledger number
StartChoices == {None, Some(0), Some(1)}
\* the chain head when the listener is constructed
InitLatest == {1}

Init ==
    /\ latest \in InitLatest
    /\ now = DayLen - 1
    /\ start_ledger \in StartChoices
    /\ last_ledger = NewLastLedger(start_ledger)
    /\ pc = "new"
    /\ contract_events = EmptyBag
    /\ snapshots = [ep \in {1} |-> BuiltSnapshot(ep)]
    /\ init_ledger = None
    /\ attempted = {}
    /\ ingested = {}
    /\ last_op = [op |-> "new"]
    /\ stopped_at = None
    /\ last_verdict = [ep \in {1} |-> None]
    /\ cancel_requested = FALSE

(* ------------------------- listener actions ---------------------------- *)
\* start_listening, `if self.last_ledger == 0`
NeedsLatest(cursor) == cursor = 0

\* start_listening up to the loop: a zero cursor is replaced by the latest
\* ledger; if that request fails start_listening returns the error
StartListening ==
    /\ pc = "new"
    /\ \E answer \in LatestLedgerAnswers :
         LET asked == NeedsLatest(last_ledger)
             failed == asked /\ ~IsSome(answer)
             cursor == IF asked /\ ~failed THEN Unwrap(answer) ELSE last_ledger
         IN /\ asked \/ answer = None
            /\ pc' = IF failed THEN "stopped" ELSE "running"
            /\ last_ledger' = cursor
            /\ init_ledger' = IF failed THEN None ELSE Some(cursor)
            /\ last_op' = [op |-> "start", asked |-> asked, failed |-> failed]
    /\ UNCHANGED <<latest, now, start_ledger, contract_events, snapshots,
                   attempted, ingested, stopped_at, last_verdict, cancel_requested>>

\* variant: only a regression is a no-op
NoNewLedgersStrict(current_ledger, cursor) == current_ledger < cursor

\* variant: a tick goes on whatever the latest ledger is
NoNewLedgersNever(current_ledger, cursor) == FALSE

\* poll_for_events, `if current_ledger <= self.last_ledger { return Ok(0) }`
NoNewLedgers(current_ledger, cursor) == current_ledger <= cursor

\* variant: the range starts one ledger late
RequestRangeLate(cursor, current_ledger) == <<cursor + 2, current_ledger>>

\* variant: the range starts at the cursor
RequestRangeFromCursor(cursor, current_ledger) == <<cursor, current_ledger>>

\* poll_for_events, the range passed to get_events_for_ledger_range
RequestRange(cursor, current_ledger) == <<cursor + 1, current_ledger>>

\* variant: the cursor stops one ledger short of current_ledger
AdvanceCursorShort(cursor, current_ledger, results) == current_ledger - 1

\* variant: the cursor stays when an event could not be stored
AdvanceCursorUnlessStoreError(cursor, current_ledger, results) ==
    IF "store_err" \in SeqToSet(results) THEN cursor ELSE current_ledger

\* poll_for_events, `self.last_ledger = current_ledger` after the loop
AdvanceCursor(cursor, current_ledger, results) == current_ledger

\* history of one tick: the answer of getLatestLedger, the range asked of
\* getEvents, the events passed to process_event (their ids, in order) and
\* what process_event made of each, their number, the errors among them, the
\* alerts sent, the Result of poll_for_events and, when that is an Err, the
\* call it came from
PollRecord(current, request, events, run, ret, err) ==
    [op |-> "poll", current |-> current, request |-> request,
     ids |-> [i \in DOMAIN run.results |-> events[i].id], results |-> run.results,
     tried |-> Len(run.results), errors |-> SeqToSet(run.results) \ OkOutcomes,
     alerts |-> run.alerts, ret |-> ret, err |-> err]

NoRun == [results |-> <<>>, alerts |-> <<>>]

\* the verdict of an event whose verification completed: the comparison of
\* the backend hash with the hash of the event
VerdictOf(sn, event) ==
    IF sn[Unwrap(event.value.epoch)].hash = Unwrap(event.value.hash)
    THEN "verified" ELSE "failed"

\* history: the verdicts v after the events i.. of a batch, in batch order
RECURSIVE VerdictsAfter(_, _, _, _, _)
VerdictsAfter(v, sn, events, results, i) ==
    IF i > Len(results) THEN v
    ELSE IF results[i] \in {"verified", "mismatch"}
         THEN VerdictsAfter([v EXCEPT ![Unwrap(events[i].value.epoch)] =
                                          Some(VerdictOf(sn, events[i]))],
                            sn, events, results, i + 1)
         ELSE VerdictsAfter(v, sn, events, results, i + 1)

\* one tick of the loop of start_listening: poll_for_events as a whole
Poll ==
    /\ pc = "running"
    /\ \E answer \in LatestLedgerAnswers :
         IF ~IsSome(answer)
         THEN \* get_latest_ledger failed: `?` returns the error
              /\ last_op' = PollRecord(None, None, <<>>, NoRun, None, "latest")
              /\ UNCHANGED <<last_ledger, contract_events, snapshots, attempted,
                             ingested, last_verdict>>
         ELSE LET current_ledger == Unwrap(answer) IN
              IF NoNewLedgers(current_ledger, last_ledger)
              THEN /\ last_op' = PollRecord(answer, None, <<>>, NoRun, Some(0), "none")
                   /\ UNCHANGED <<last_ledger, contract_events, snapshots,
                                  attempted, ingested, last_verdict>>
              ELSE LET request == RequestRange(last_ledger, current_ledger) IN
                   \E got \in EventsAnswers(request[1], request[2]) :
                     IF ~IsSome(got)
                     THEN \* get_events_for_ledger_range failed: request or RPC error
                          /\ last_op' = PollRecord(answer, Some(request), <<>>, NoRun, None,
                                                   "events")
                          /\ UNCHANGED <<last_ledger, contract_events, snapshots,
                                         attempted, ingested, last_verdict>>
                     ELSE IF ~IsSome(from_value(Unwrap(got)))
                     THEN \* "Failed to deserialize events": `?` returns the error
                          /\ last_op' = PollRecord(answer, Some(request), <<>>, NoRun, None,
                                                   "deserialize")
                          /\ UNCHANGED <<last_ledger, contract_events, snapshots,
                                         attempted, ingested, last_verdict>>
                     ELSE LET events == Unwrap(from_value(Unwrap(got))) IN
                          \E F \in FaultSets(Len(events)) :
                          \E kind \in IF F = {} THEN {"store"} ELSE FaultKinds :
                            LET faults == FaultAt(kind, F, Len(events))
                                run == ProcessBatch([ev |-> contract_events, sn |-> snapshots],
                                                    events, faults, 1, now)
                                events_processed ==
                                    Cardinality({i \in DOMAIN run.results :
                                                   run.results[i] \in OkOutcomes})
                            IN /\ contract_events' = run.db.ev
                               /\ snapshots' = run.db.sn
                               /\ last_ledger' = AdvanceCursor(last_ledger, current_ledger,
                                                               run.results)
                               /\ attempted' = attempted \cup
                                     {events[i] : i \in DOMAIN run.results}
                               /\ ingested' = ingested \cup
                                     {events[i].id : i \in {j \in DOMAIN run.results :
                                                    run.results[j] \in StoredOutcomes}}
                               /\ last_verdict' = VerdictsAfter(last_verdict, snapshots,
                                                                events, run.results, 1)
                               /\ last_op' = PollRecord(answer, Some(request), events, run,
                                                        Some(events_processed), "none")
    /\ UNCHANGED <<latest, now, start_ledger, pc, init_ledger, stopped_at,
                   cancel_requested>>

\* the process that runs the listener ends (it is killed, or start_listening
\* returned) and a new one constructs the listener from the same configuration
Restart ==
    /\ pc \in {"running", "stopped"}
    /\ stopped_at' = Some(last_ledger)
    /\ last_ledger' = NewLastLedger(start_ledger)
    /\ pc' = "new"
    /\ init_ledger' = None
    /\ last_op' = [op |-> "restart"]
    /\ UNCHANGED <<latest, now, start_ledger, contract_events, snapshots,
                   attempted, ingested, last_verdict, cancel_requested>>

\* the operator asks the listener to shut down
RequestCancel ==
    /\ pc = "running"
    /\ ~cancel_requested
    /\ cancel_requested' = TRUE
    /\ last_op' = [op |-> "cancel"]
    /\ UNCHANGED <<latest, now, start_ledger, last_ledger, pc, contract_events,
                   snapshots, init_ledger, attempted, ingested, stopped_at,
                   last_verdict>>

(* -------------------------- indexer actions ---------------------------- *)
\* MAX(column): NULL when no row has a value in the column
MaxOf(values) ==
    IF values = {} THEN None ELSE Some(CHOOSE m \in values : \A x \in values : x <= m)

\* variant: every row with a status counts as verified
get_event_stats_lenient(t, clock) ==
    [total_events |-> BagCardinality(t),
     verified_snapshots |->
         BagCardinality(Where(t, LAMBDA r : IsSome(r.verification_status))),
     failed_verifications |->
         BagCardinality(Where(t, LAMBDA r : r.verification_status = Some("failed"))),
     latest_epoch |-> MaxOf({Unwrap(r.epoch) : r \in {x \in BagToSet(t) : IsSome(x.epoch)}}),
     latest_ledger |-> MaxOf({r.ledger : r \in BagToSet(t)}),
     events_last_24h |->
         BagCardinality(Where(t, LAMBDA r : TextLess(sqlite_datetime(clock, 1),
                                                     to_rfc3339(r.created_at))))]

\* get_event_stats: COUNT(*), COUNT(CASE WHEN verification_status = ..),
\* MAX(epoch), MAX(ledger), COUNT(CASE WHEN created_at > datetime('now', '-1 day'))
get_event_stats(t, clock) ==
    [total_events |-> BagCardinality(t),
     verified_snapshots |->
         BagCardinality(Where(t, LAMBDA r : r.verification_status = Some("verified"))),
     failed_verifications |->
         BagCardinality(Where(t, LAMBDA r : r.verification_status = Some("failed"))),
     latest_epoch |-> MaxOf({Unwrap(r.epoch) : r \in {x \in BagToSet(t) : IsSome(x.epoch)}}),
     latest_ledger |-> MaxOf({r.ledger : r \in BagToSet(t)}),
     events_last_24h |->
         BagCardinality(Where(t, LAMBDA r : TextLess(sqlite_datetime(clock, 1),
                                                     to_rfc3339(r.created_at))))]

\* variant: a row without a status is reported as 'unknown'
SummaryOfUnknown(r) ==
    [epoch |-> Unwrap(r.epoch), hash |-> r.hash, ledger |-> r.ledger,
     verification_status |-> unwrap_or(r.verification_status, "unknown"),
     created_at |-> from_rfc3339(to_rfc3339(r.created_at)),
     transaction_hash |-> r.transaction_hash]

\* get_verification_summary, the VerificationSummary built from a row: a NULL
\* verification_status reads `unwrap_or("pending")`
SummaryOf(r) ==
    [epoch |-> Unwrap(r.epoch), hash |-> r.hash, ledger |-> r.ledger,
     verification_status |-> unwrap_or(r.verification_status, "pending"),
     created_at |-> from_rfc3339(to_rfc3339(r.created_at)),
     transaction_hash |-> r.transaction_hash]

\* ... WHERE event_type = 'SNAP_SUB' AND epoch IS NOT NULL
SummaryRows(t) == Where(t, LAMBDA r : r.event_type = "SNAP_SUB" /\ IsSome(r.epoch))

\* variant: no ORDER BY, the rows come in any order
SummaryOrdersAny(t) ==
    LET w == SummaryRows(t)
        n == BagCardinality(w)
    IN {o \in [1..n -> BagToSet(w)] :
          \A r \in BagToSet(w) : Cardinality({i \in 1..n : o[i] = r}) = w[r]}

\* ... ORDER BY epoch DESC: the orders the database may return the rows in
\* (rows of equal epoch come in any order)
SummaryOrders(t) ==
    LET w == SummaryRows(t)
        n == BagCardinality(w)
    IN {o \in [1..n -> BagToSet(w)] :
          /\ \A r \in BagToSet(w) : Cardinality({i \in 1..n : o[i] = r}) = w[r]
          /\ \A i, j \in 1..n : i < j => Unwrap(o[i].epoch) >= Unwrap(o[j].epoch)}

\* get_verification_summary(epoch_count): ... LIMIT ?, the possible answers
get_verification_summary(t, epoch_count) ==
    {[i \in 1..(IF Len(o) < epoch_count THEN Len(o) ELSE epoch_count) |-> SummaryOf(o[i])] :
        o \in SummaryOrders(t)}

\* variant: the status is not among the bound columns
IndexedRowNoStatus(event) ==
    [id |-> event.id, contract_id |-> event.contract_id, event_type |-> event.event_type,
     epoch |-> event.epoch, hash |-> event.hash, timestamp |-> event.timestamp,
     ledger |-> event.ledger, transaction_hash |-> event.transaction_hash,
     created_at |-> event.created_at, verification_status |-> None,
     verified_at |-> None]

\* index_event: all ten columns are bound from the IndexedEvent; verified_at
\* is not named and takes its default NULL
IndexedRow(event) ==
    [id |-> event.id, contract_id |-> event.contract_id, event_type |-> event.event_type,
     epoch |-> event.epoch, hash |-> event.hash, timestamp |-> event.timestamp,
     ledger |-> event.ledger, transaction_hash |-> event.transaction_hash,
     created_at |-> event.created_at, verification_status |-> event.verification_status,
     verified_at |-> None]

index_event(t, event) == InsertOrReplace(t, IndexedRow(event))

\* the IndexedEvent values index_event is called with: a decoded event of
\* the chain, with a creation time and a status of the caller's choice
Indexed == {ChainSeq[1]}
IndexInputsOf(pool, statuses) ==
    {[id |-> e.id, contract_id |-> e.contract_id, event_type |-> e.topic[1],
      epoch |-> e.value.epoch, hash |-> e.value.hash, timestamp |-> e.value.timestamp,
      ledger |-> e.at, transaction_hash |-> e.id, created_at |-> t,
      verification_status |-> st] :
        e \in pool, t \in {now}, st \in statuses}

IndexInputs == IndexInputsOf({x \in Indexed : x.at <= latest}, {None, Some("verified")})

IndexEventOf(inputs) ==
    /\ \E event \in inputs :
         /\ contract_events' = index_event(contract_events, event)
         /\ ingested' = ingested \cup {event.id}
         /\ last_op' = [op |-> "index_event", event |-> event]
    /\ UNCHANGED <<latest, now, start_ledger, last_ledger, pc, snapshots,
                   init_ledger, attempted, stopped_at, last_verdict, cancel_requested>>

IndexEvent == IndexEventOf(IndexInputs)

\* variant: the UPDATE stamps verified_at and leaves the status
UpdatedStampOnly(r, status, clock) == [r EXCEPT !.verified_at = Some(clock)]

\* EventIndexer::update_verification_status:
\* UPDATE contract_events SET verification_status = ?, verified_at = ? WHERE id = ?
Updated(r, status, clock) ==
    [r EXCEPT !.verification_status = Some(status), !.verified_at = Some(clock)]

\* the rows `rows` of t after the UPDATE, with their multiplicities
RECURSIVE UpdatedRows(_, _, _, _)
UpdatedRows(rows, t, status, clock) ==
    IF rows = {} THEN EmptyBag
    ELSE LET r == CHOOSE x \in rows : TRUE
         IN UpdatedRows(rows \ {r}, t, status, clock)
              (+) [x \in {Updated(r, status, clock)} |-> t[r]]

update_status(t, event_id, status, clock) ==
    DeleteId(t, event_id) (+) UpdatedRows(RowsOf(t, event_id), t, status, clock)

UpdateStatus ==
    /\ \E event_id \in {e.id : e \in Indexed}, status \in {"verified", "failed"} :
         /\ contract_events' = update_status(contract_events, event_id, status, now)
         /\ last_op' = [op |-> "update_status", id |-> event_id, status |-> status,
                         ret |-> "Ok"]
    /\ UNCHANGED <<latest, now, start_ledger, last_ledger, pc, snapshots,
                   init_ledger, attempted, ingested, stopped_at, last_verdict,
                   cancel_requested>>

\* cleanup_old_events: DELETE FROM contract_events
\*                     WHERE created_at < datetime('now', '-N days')
cleanup_old_events(t, days_to_keep, clock) ==
    Where(t, LAMBDA r : ~TextLess(to_rfc3339(r.created_at),
                                  sqlite_datetime(clock, days_to_keep)))

Cleanup ==
    /\ \E days_to_keep \in 0..1 :
         LET kept == cleanup_old_events(contract_events, days_to_keep, now) IN
         /\ contract_events' = kept
         /\ ingested' = ingested \cap RowIds(kept)
         /\ last_op' = [op |-> "cleanup", days |-> days_to_keep,
                         ret |-> BagCardinality(contract_events) - BagCardinality(kept)]
    /\ UNCHANGED <<latest, now, start_ledger, last_ledger, pc, snapshots,
                   init_ledger, attempted, stopped_at, last_verdict, cancel_requested>>

(* ------------------------ on-demand verification ----------------------- *)
\* the spellings a hash string arrives in: hex digits in either case
HashSpellings == {"a", "A", "b", "B"}
\* str::to_ascii_lowercase on these spellings
Lower(h) == IF h = "A" THEN "a" ELSE IF h = "B" THEN "b" ELSE h

\* verify_snapshot(epoch): the on-chain hash is read from the contract with
\* get_snapshot_from_contract and handed on as it came; Ok(None) gives Ok(false)
verify_snapshot(db, epoch, on_chain_hash, clock) ==
    IF IsSome(on_chain_hash)
    THEN verify_snapshot_with_backend(db, epoch, Unwrap(on_chain_hash), "none", clock)
    ELSE [db |-> db, what |-> "not_on_chain", alerts |-> <<>>]

\* Result values
Ok(v) == [ok |-> TRUE, value |-> v]
Err(e) == [ok |-> FALSE, error |-> e]

\* a JSON-RPC response body carries an error object, of which the message
\* is kept as its phrases, or a result, or neither
Body(error, result) == [error |-> error, result |-> result]
\* str::contains on a message
contains(message, phrase) == \E i \in DOMAIN message : message[i] = phrase

\* get_snapshot_from_contract, from the response body on: an error whose
\* message contains "not found" is Ok(None), any other error is an Err; of a
\* result the string at returnValue is taken, if there is one
get_snapshot_from_contract(body) ==
    IF IsSome(body.error)
    THEN IF contains(Unwrap(body.error), "not found") THEN Ok(None)
         ELSE Err("Contract query failed")
    ELSE IF IsSome(body.result) THEN Ok(Unwrap(body.result).returnValue)
         ELSE Ok(None)

\* get_events_for_ledger_range, from the response body on: any error object
\* is an Err; a result is deserialized; a body with neither is Ok(vec![])
get_events_for_ledger_range(body) ==
    IF IsSome(body.error) THEN Err("getEvents failed")
    ELSE IF IsSome(body.result)
         THEN IF IsSome(from_value(Unwrap(body.result)))
              THEN Ok(Unwrap(from_value(Unwrap(body.result))))
              ELSE Err("Failed to deserialize events")
         ELSE Ok(<<>>)

\* the error objects an RPC node answers with
RpcErrors == {<<"snapshot", "not found">>, <<"internal error">>}

\* answers to simulateTransaction(get_snapshot): an error, no result, a result
\* without a string at returnValue, or the hash in one of the spellings
SnapshotBodies ==
    {Body(Some(e), None) : e \in RpcErrors}
    \cup {Body(None, None), Body(None, Some([returnValue |-> None]))}
    \cup {Body(None, Some([returnValue |-> Some(h)])) : h \in HashSpellings}

\* answers to getEvents: an error, no result, or a list of events
EventsBodies ==
    {Body(Some(e), None) : e \in RpcErrors}
    \cup {Body(None, None)}
    \cup {Body(None, Some(l)) : l \in {<<>>, <<ChainSeq[1]>>, <<ChainSeq[1], Garbled>>}}

VerifySnapshot ==
    /\ \E epoch \in 1..2, body \in SnapshotBodies :
         LET got == get_snapshot_from_contract(body) IN
         IF got.ok
         THEN LET r == verify_snapshot([ev |-> contract_events, sn |-> snapshots],
                                       epoch, got.value, now) IN
              /\ snapshots' = r.db.sn
              /\ last_op' = [op |-> "verify_snapshot", epoch |-> epoch, body |-> body,
                              hash |-> got.value, what |-> r.what]
         ELSE /\ snapshots' = snapshots
              /\ last_op' = [op |-> "verify_snapshot", epoch |-> epoch, body |-> body,
                              hash |-> None, what |-> "rpc_err"]
    /\ UNCHANGED <<latest, now, start_ledger, last_ledger, pc, contract_events,
                   init_ledger, attempted, ingested, stopped_at, last_verdict,
                   cancel_requested>>

\* the listener sends getEvents and reads the answer
GetEvents ==
    /\ \E body \in EventsBodies :
         last_op' = [op |-> "get_events", body |-> body,
                     ret |-> get_events_for_ledger_range(body)]
    /\ UNCHANGED <<latest, now, start_ledger, last_ledger, pc, contract_events,
                   snapshots, init_ledger, attempted, ingested, stopped_at,
                   last_verdict, cancel_requested>>

\* process_event on one delivered SNAP_SUB event whose payload carries the
\* hash in one of the spellings
SpelledEvents ==
    {RawEvent("e1", 1, <<"SNAP_SUB">>, Some(ep), Some(h), Some(7)) :
        ep \in 1..2, h \in HashSpellings}

ProcessSpelled ==
    /\ \E event \in SpelledEvents :
         LET r == process_event([ev |-> contract_events, sn |-> snapshots],
                                event, "none", now) IN
         /\ contract_events' = r.db.ev
         /\ snapshots' = r.db.sn
         /\ ingested' = ingested \cup {event.id}
         /\ last_op' = [op |-> "process_event", epoch |-> Unwrap(event.value.epoch),
                         hash |-> event.value.hash, what |-> r.what]
    /\ UNCHANGED <<latest, now, start_ledger, last_ledger, pc, init_ledger,
                   attempted, stopped_at, last_verdict, cancel_requested>>

\* SNAP_SUB events whose payload lacks a field, or whose ledger is no number
LackingEvents ==
    {RawEvent("e7", 1, <<"SNAP_SUB">>, None, Some("a"), Some(7)),
     RawEvent("e7", 1, <<"SNAP_SUB">>, Some(1), None, Some(7)),
     RawEvent("e7", 1, <<"SNAP_SUB">>, Some(1), Some("a"), None),
     [RawEvent("e7", 1, <<"SNAP_SUB">>, Some(1), Some("a"), Some(7)) EXCEPT !.ledger = "x"]}

\* process_event on one of them
ProcessLacking ==
    /\ \E event \in LackingEvents :
         LET r == process_event([ev |-> contract_events, sn |-> snapshots],
                                event, "none", now) IN
         /\ contract_events' = r.db.ev
         /\ snapshots' = r.db.sn
         /\ last_op' = [op |-> "process_lacking", id |-> event.id,
                         value |-> event.value, ledger |-> event.ledger, what |-> r.what]
    /\ UNCHANGED <<latest, now, start_ledger, last_ledger, pc, init_ledger,
                   attempted, ingested, stopped_at, last_verdict, cancel_requested>>

(* ---------------------------- the missed-events job -------------------- *)
\* the orders a SELECT ... ORDER BY may return the rows of w in: every
\* arrangement in which no row comes after one that Before(_, _) puts behind it
\* (rows that compare equal come in any order)
Sorted(w, Before(_, _)) ==
    LET n == BagCardinality(w)
    IN {o \in [1..n -> BagToSet(w)] :
          /\ \A r \in BagToSet(w) : Cardinality({i \in 1..n : o[i] = r}) = w[r]
          /\ \A i, j \in 1..n : i < j => ~Before(o[j], o[i])}

\* ... LIMIT n
Take(o, n) == [i \in 1..(IF Len(o) < n THEN Len(o) ELSE n) |-> o[i]]

\* ORDER BY created_at DESC on the stored timestamp texts
CreatedLater(a, b) == TextLess(to_rfc3339(b.created_at), to_rfc3339(a.created_at))

\* get_recent_events, the SnapshotEvent read from a row
RecentEventOf(r) ==
    [epoch |-> Unwrap(r.epoch), hash |-> Unwrap(r.hash),
     timestamp |-> Unwrap(r.timestamp), ledger |-> r.ledger,
     transaction_hash |-> r.transaction_hash, contract_id |-> r.contract_id,
     event_type |-> r.event_type]

\* get_recent_events(limit): SELECT ... FROM contract_events
\*                           ORDER BY created_at DESC LIMIT ?, the possible answers
get_recent_events(t, limit) ==
    {[i \in DOMAIN Take(o, limit) |-> RecentEventOf(o[i])] : o \in Sorted(t, CreatedLater)}

\* check_for_missed_events: the start ledger is computed from the first of
\* get_recent_events(1), or from config.start_ledger; the body then only logs
\* and returns Ok(0), the store is not written
check_for_missed_events(t, cfg_start) ==
    {[start_ledger |-> IF Len(recent_events) > 0 THEN recent_events[1].ledger + 1
                       ELSE unwrap_or(cfg_start, 0),
      events_processed |-> 0] : recent_events \in get_recent_events(t, 1)}

\* one turn of the job's loop: interval.tick(), then check_for_missed_events;
\* turn tells successive turns apart
CheckMissed ==
    /\ \E res \in check_for_missed_events(contract_events, start_ledger) :
         last_op' = [op |-> "check_missed", start |-> res.start_ledger,
                     ret |-> res.events_processed,
                     turn |-> IF last_op.op = "check_missed" THEN 1 - last_op.turn ELSE 0]
    /\ UNCHANGED <<latest, now, start_ledger, last_ledger, pc, contract_events,
                   snapshots, init_ledger, attempted, ingested, stopped_at,
                   last_verdict, cancel_requested>>

(* ------------------------------- queries ------------------------------- *)
\* query_events / get_event_by_id, the IndexedEvent built from a row: the
\* SELECT names ten columns, verified_at is not one of them
IndexedEventOf(r) ==
    [id |-> r.id, contract_id |-> r.contract_id, event_type |-> r.event_type,
     epoch |-> r.epoch, hash |-> r.hash, timestamp |-> r.timestamp,
     ledger |-> r.ledger, transaction_hash |-> r.transaction_hash,
     created_at |-> from_rfc3339(to_rfc3339(r.created_at)),
     verification_status |-> r.verification_status]

\* EventQuery::default()
DefaultQuery ==
    [contract_id |-> None, event_type |-> None, epoch |-> None, hash |-> None,
     ledger_range |-> None, time_range |-> None, verification_status |-> None,
     limit |-> None, offset |-> None, order_by |-> None]

\* a TEXT binding compared with an INTEGER column is converted to a number
IntegerAffinity(text) == parse_u64(text)

\* `column = ?` on a TEXT column: NULL equals nothing
TextEquals(column, binding) == IsSome(column) /\ Unwrap(column) = binding

\* `epoch = ?`, the binding being epoch.to_string()
EpochEquals(column, epoch) ==
    IsSome(column) /\ column = IntegerAffinity(to_string(epoch))

\* variant: BETWEEN that leaves out its upper bound
LedgerBetweenOpen(ledger, range) ==
    LET lo == IntegerAffinity(to_string(range[1]))
        hi == IntegerAffinity(to_string(range[2]))
    IN IsSome(lo) /\ IsSome(hi) /\ Unwrap(lo) <= ledger /\ ledger < Unwrap(hi)

\* `ledger BETWEEN ? AND ?`, the bindings being the bounds' to_string()
LedgerBetween(ledger, range) ==
    LET lo == IntegerAffinity(to_string(range[1]))
        hi == IntegerAffinity(to_string(range[2]))
    IN IsSome(lo) /\ IsSome(hi) /\ Unwrap(lo) <= ledger /\ ledger <= Unwrap(hi)

\* `created_at BETWEEN ? AND ?`, the bindings being the bounds' to_rfc3339():
\* a comparison of texts
CreatedBetween(created_at, range) ==
    /\ ~TextLess(to_rfc3339(created_at), to_rfc3339(range[1]))
    /\ ~TextLess(to_rfc3339(range[2]), to_rfc3339(created_at))

\* WHERE 1=1 AND ..., one conjunct for each filter that is Some
Matches(r, query) ==
    /\ IsSome(query.contract_id) => r.contract_id = Unwrap(query.contract_id)
    /\ IsSome(query.event_type) => r.event_type = Unwrap(query.event_type)
    /\ IsSome(query.epoch) => EpochEquals(r.epoch, Unwrap(query.epoch))
    /\ IsSome(query.hash) => TextEquals(r.hash, Unwrap(query.hash))
    /\ IsSome(query.ledger_range) => LedgerBetween(r.ledger, Unwrap(query.ledger_range))
    /\ IsSome(query.time_range) => CreatedBetween(r.created_at, Unwrap(query.time_range))
    /\ IsSome(query.verification_status)
         => TextEquals(r.verification_status, Unwrap(query.verification_status))

\* ORDER BY epoch: NULL sorts before every number
EpochKey(r) == IF IsSome(r.epoch) THEN Unwrap(r.epoch) + 1 ELSE 0

\* the ORDER BY clause of each EventOrderBy: a comes strictly before b
OrderedBefore(order_by, a, b) ==
    CASE order_by = "CreatedAtAsc" -> CreatedLater(b, a)
      [] order_by = "CreatedAtDesc" -> CreatedLater(a, b)
      [] order_by = "LedgerAsc" -> a.ledger < b.ledger
      [] order_by = "LedgerDesc" -> a.ledger > b.ledger
      [] order_by = "EpochAsc" -> EpochKey(a) < EpochKey(b)
      [] order_by = "EpochDesc" -> EpochKey(a) > EpochKey(b)

\* the LIMIT / OFFSET clause the query text ends with: LIMIT only when
\* query.limit is Some, OFFSET only inside that
LimitClause(query) == query.limit
\* variant: OFFSET is written whenever query.offset is Some
OffsetClauseAlways(query) == query.offset
OffsetClause(query) == IF IsSome(query.limit) THEN query.offset ELSE None

\* the clauses applied to the ordered rows: OFFSET k skips k rows, LIMIT n
\* keeps n of the rest; a clause the text does not have does nothing, a
\* negative LIMIT is no limit and a negative OFFSET is none
Page(o, limit, offset) ==
    LET k == IF IsSome(offset) /\ Unwrap(offset) > 0 THEN Unwrap(offset) ELSE 0
        rest == SubSeq(o, k + 1, Len(o))
    IN IF ~IsSome(limit) \/ Unwrap(limit) < 0 THEN rest ELSE Take(rest, Unwrap(limit))

\* query_events: the possible answers
query_events(t, query) ==
    LET order_by == unwrap_or(query.order_by, "CreatedAtDesc")
        found == Where(t, LAMBDA r : Matches(r, query))
    IN {LET page == Page(o, LimitClause(query), OffsetClause(query))
        IN [i \in DOMAIN page |-> IndexedEventOf(page[i])] :
          o \in Sorted(found, LAMBDA a, b : OrderedBefore(order_by, a, b))}

(* ----------------------------- API actions ----------------------------- *)
\* the IndexedEvent values a caller of the indexer hands it: the snapshot
\* events of two epochs with any status, and an event of another type
QueryPool == {ChainSeq[1], RawEvent("e6", 2, <<"SNAP_SUB">>, Some(2), Some("b"), Some(8))}
PoolInputs ==
    IndexInputsOf(QueryPool, {None, Some("verified"), Some("failed")})
    \cup IndexInputsOf({ChainSeq[3]}, {None})
IndexPooled == IndexEventOf(PoolInputs)

\* EventQuery values without pagination: one filter set, or several
OneFilter ==
    {[DefaultQuery EXCEPT !.contract_id = Some(v)] : v \in {"C", "D"}}
    \cup {[DefaultQuery EXCEPT !.event_type = Some(v)] : v \in {"SNAP_SUB", "OTHER"}}
    \cup {[DefaultQuery EXCEPT !.epoch = Some(v)] : v \in {1, 2}}
    \cup {[DefaultQuery EXCEPT !.hash = Some(v)] : v \in {"a", "b"}}
    \cup {[DefaultQuery EXCEPT !.ledger_range = Some(v)] : v \in {<<1, 1>>, <<1, 2>>, <<2, 3>>}}
    \cup {[DefaultQuery EXCEPT !.time_range = Some(<<a, b>>)] :
            a \in {DayLen - 1}, b \in {DayLen - 1, DayLen}}
    \cup {[DefaultQuery EXCEPT !.time_range = Some(<<DayLen, DayLen + 1>>)]}
    \cup {[DefaultQuery EXCEPT !.verification_status = Some(v)] : v \in {"verified", "failed"}}
SeveralFilters ==
    {[DefaultQuery EXCEPT !.event_type = Some("SNAP_SUB"), !.verification_status = Some(v)] :
        v \in {"verified", "failed"}}
    \cup {[DefaultQuery EXCEPT !.epoch = Some(2), !.ledger_range = Some(<<2, 2>>)],
          [DefaultQuery EXCEPT !.hash = Some("a"), !.time_range = Some(<<DayLen, DayLen>>)],
          [DefaultQuery EXCEPT !.contract_id = Some("C"), !.event_type = Some("SNAP_SUB"),
                               !.epoch = Some(2), !.hash = Some("b"),
                               !.ledger_range = Some(<<1, 2>>),
                               !.time_range = Some(<<DayLen - 1, DayLen>>),
                               !.verification_status = Some("failed")]}
\* EventQuery values with an order or a page
Paged ==
    {[DefaultQuery EXCEPT !.limit = l, !.offset = o] :
        l \in {None, Some(0), Some(1)}, o \in {None, Some(1)}}
    \cup {[DefaultQuery EXCEPT !.order_by = Some(ord)] : ord \in {"LedgerAsc", "EpochDesc"}}
Queries == {DefaultQuery} \cup OneFilter \cup SeveralFilters \cup Paged

\* variant: a query that deletes the rows it matched
QueryEventsReaping ==
    /\ \E query \in Queries :
         \E ret \in query_events(contract_events, query) :
           /\ last_op' = [op |-> "query_events", query |-> query, asked |-> query.limit,
                          limit |-> LimitClause(query), ret |-> ret]
           /\ contract_events' = Where(contract_events, LAMBDA r : ~Matches(r, query))
    /\ UNCHANGED <<latest, now, start_ledger, last_ledger, pc,
                   snapshots, init_ledger, attempted, ingested, stopped_at,
                   last_verdict, cancel_requested>>

\* a caller of the indexer runs query_events
QueryEvents ==
    /\ \E query \in Queries :
         \E ret \in query_events(contract_events, query) :
           last_op' = [op |-> "query_events", query |-> query, asked |-> query.limit,
                       limit |-> LimitClause(query), ret |-> ret]
    /\ UNCHANGED <<latest, now, start_ledger, last_ledger, pc, contract_events,
                   snapshots, init_ledger, attempted, ingested, stopped_at,
                   last_verdict, cancel_requested>>

\* list_contract_events, `params.limit.or(Some(50))`
DefaultLimit == 50
\* Option::or
or(a, b) == IF IsSome(a) THEN a ELSE b

\* list_contract_events, the EventQuery built from the query string
ListQuery(params) ==
    [DefaultQuery EXCEPT !.event_type = params.event_type,
                         !.verification_status = params.verification_status,
                         !.limit = or(params.limit, Some(DefaultLimit)),
                         !.offset = params.offset,
                         !.order_by = Some("CreatedAtDesc")]

\* EventListQuery values of GET /analytics/contract-events
ListParams ==
    {[limit |-> l, offset |-> o, event_type |-> ty, verification_status |-> None] :
        l \in {None, Some(1), Some(1001)}, o \in {None, Some(1)},
        ty \in {None, Some("SNAP_SUB")}}

ListContractEvents ==
    /\ \E params \in ListParams :
         \E ret \in query_events(contract_events, ListQuery(params)) :
           last_op' = [op |-> "list_contract_events", query |-> ListQuery(params),
                       asked |-> params.limit,
                       limit |-> LimitClause(ListQuery(params)), ret |-> ret]
    /\ UNCHANGED <<latest, now, start_ledger, last_ledger, pc, contract_events,
                   snapshots, init_ledger, attempted, ingested, stopped_at,
                   last_verdict, cancel_requested>>

\* get_event_by_id: SELECT ... WHERE id = ? with fetch_optional, the
\* possible answers
get_event_by_id(t, id) ==
    IF RowsOf(t, id) = {} THEN {None}
    ELSE {Some(IndexedEventOf(r)) : r \in RowsOf(t, id)}

\* get_contract_event: None becomes StatusCode::NOT_FOUND
get_contract_event(t, id) ==
    {[status |-> IF IsSome(found) THEN 200 ELSE 404, body |-> found] :
        found \in get_event_by_id(t, id)}

GetContractEvent ==
    /\ \E id \in {"e1", "e6", "e4", "e9"} :
         \E response \in get_contract_event(contract_events, id) :
           last_op' = [op |-> "get_contract_event", id |-> id, response |-> response]
    /\ UNCHANGED <<latest, now, start_ledger, last_ledger, pc, contract_events,
                   snapshots, init_ledger, attempted, ingested, stopped_at,
                   last_verdict, cancel_requested>>

\* get_stats of the job: get_event_stats of the indexer
GetEventStats ==
    /\ last_op' = [op |-> "get_event_stats", stats |-> get_event_stats(contract_events, now)]
    /\ UNCHANGED <<latest, now, start_ledger, last_ledger, pc, contract_events,
                   snapshots, init_ledger, attempted, ingested, stopped_at,
                   last_verdict, cancel_requested>>

\* the handler get_verification_summary: the summaries of
\* get_verification_summary(10), and the first of them as latest*
VerificationSummaryResponse(summaries) ==
    LET latest_summary == IF Len(summaries) > 0 THEN Some(summaries[1]) ELSE None
        map(f(_)) == IF IsSome(latest_summary) THEN Some(f(Unwrap(latest_summary))) ELSE None
    IN [latest_epoch |-> map(LAMBDA s : s.epoch),
        latest_status |-> map(LAMBDA s : s.verification_status),
        latest_hash |-> IF IsSome(latest_summary) THEN Unwrap(latest_summary).hash ELSE None,
        latest_ledger |-> map(LAMBDA s : s.ledger),
        latest_submitted |-> map(LAMBDA s : to_rfc3339(s.created_at)),
        audit_trail |-> summaries]

\* a caller asks the indexer for the summary of the last epoch_count epochs
GetSummary ==
    /\ \E epoch_count \in 0..2 :
         \E ret \in get_verification_summary(contract_events, epoch_count) :
           last_op' = [op |-> "get_verification_summary", epoch_count |-> epoch_count,
                       ret |-> ret]
    /\ UNCHANGED <<latest, now, start_ledger, last_ledger, pc, contract_events,
                   snapshots, init_ledger, attempted, ingested, stopped_at,
                   last_verdict, cancel_requested>>

\* GET /analytics/verification-summary
GetVerificationSummary ==
    /\ \E summaries \in get_verification_summary(contract_events, 10) :
         last_op' = [op |-> "verification_summary",
                     response |-> VerificationSummaryResponse(summaries)]
    /\ UNCHANGED <<latest, now, start_ledger, last_ledger, pc, contract_events,
                   snapshots, init_ledger, attempted, ingested, stopped_at,
                   last_verdict, cancel_requested>>

(* ------------------------- further read operations --------------------- *)
\* the shorthand queries: each builds an EventQuery and runs query_events
get_latest_snapshots(t, limit) ==
    query_events(t, [DefaultQuery EXCEPT !.event_type = Some("SNAP_SUB"),
                                         !.limit = Some(limit),
                                         !.order_by = Some("EpochDesc")])
get_events_for_epoch(t, epoch) ==
    query_events(t, [DefaultQuery EXCEPT !.epoch = Some(epoch),
                                         !.order_by = Some("CreatedAtDesc")])

\* GET /analytics/contract-events/epoch/:epoch
GetEventsForEpoch ==
    /\ \E epoch \in 1..2 :
         \E ret \in get_events_for_epoch(contract_events, epoch) :
           last_op' = [op |-> "get_events_for_epoch", epoch |-> epoch, ret |-> ret]
    /\ UNCHANGED <<latest, now, start_ledger, last_ledger, pc, contract_events,
                   snapshots, init_ledger, attempted, ingested, stopped_at,
                   last_verdict, cancel_requested>>

GetLatestSnapshots ==
    /\ \E ret \in get_latest_snapshots(contract_events, 1) :
         last_op' = [op |-> "get_latest_snapshots", ret |-> ret]
    /\ UNCHANGED <<latest, now, start_ledger, last_ledger, pc, contract_events,
                   snapshots, init_ledger, attempted, ingested, stopped_at,
                   last_verdict, cancel_requested>>

\* a hash of the model is a text of one character
TextOf(hash) == <<hash>>

\* SQLite's LIKE on two texts: % stands for any run of characters, _ for any
\* one character, and letters match without regard to ASCII case
RECURSIVE Like(_, _)
Like(text, pattern) ==
    IF pattern = <<>> THEN text = <<>>
    ELSE IF Head(pattern) = "%"
         THEN Like(text, Tail(pattern)) \/ (text # <<>> /\ Like(Tail(text), pattern))
         ELSE /\ text # <<>>
              /\ Head(pattern) = "_" \/ Lower(Head(pattern)) = Lower(Head(text))
              /\ Like(Tail(text), Tail(pattern))

\* search_by_hash_prefix: ... WHERE hash LIKE ? ORDER BY created_at DESC LIMIT ?,
\* the pattern bound being format!("{}%", prefix); the possible answers
search_by_hash_prefix(t, prefix, limit) ==
    LET search_pattern == prefix \o <<"%">>
        found == Where(t, LAMBDA r : IsSome(r.hash)
                                     /\ Like(TextOf(Unwrap(r.hash)), search_pattern))
    IN {LET page == Page(o, Some(limit), None)
        IN [i \in DOMAIN page |-> IndexedEventOf(page[i])] :
          o \in Sorted(found, CreatedLater)}

\* prefixes a caller searches for: plain ones, ones with the characters LIKE
\* gives a meaning to, and one that carries SQL text
Prefixes ==
    {<<>>, <<"a">>, <<"b">>, <<"A">>, <<"_">>, <<"%">>, <<"a", "b">>,
     <<"a", "'", ";", "DROP TABLE contract_events", ";", "-", "-">>}

SearchByHashPrefix ==
    /\ \E prefix \in Prefixes, limit \in {1, 10} :
         \E ret \in search_by_hash_prefix(contract_events, prefix, limit) :
           last_op' = [op |-> "search_by_hash_prefix", prefix |-> prefix,
                       limit |-> limit, ret |-> ret]
    /\ UNCHANGED <<latest, now, start_ledger, last_ledger, pc, contract_events,
                   snapshots, init_ledger, attempted, ingested, stopped_at,
                   last_verdict, cancel_requested>>

\* the read operations of the indexer and the handlers built on them
ReadOps ==
    {"query_events", "list_contract_events", "get_contract_event", "get_event_stats",
     "get_verification_summary", "verification_summary", "get_events_for_epoch",
     "get_latest_snapshots", "search_by_hash_prefix"}

\* a read whose statement the database fails: the indexer returns the Err and
\* a handler answers INTERNAL_SERVER_ERROR
ReadFails ==
    /\ \E read \in ReadOps : last_op' = [op |-> "read_failed", read |-> read, status |-> 500]
    /\ UNCHANGED <<latest, now, start_ledger, last_ledger, pc, contract_events,
                   snapshots, init_ledger, attempted, ingested, stopped_at,
                   last_verdict, cancel_requested>>

(* ------------------------------- start-up ------------------------------ *)
\* std::env::var("SNAPSHOT_CONTRACT_ID"): unset, or set to the contract's id
EnvContractIds == {None, Some("C")}

\* ContractEventListener::from_env: the contract id is read with
\* .context(..)?, an unset variable is an Err and no listener is built
from_env(env) ==
    IF IsSome(env) THEN Ok([contract_id |-> Unwrap(env)])
    ELSE Err("SNAPSHOT_CONTRACT_ID environment variable not set")

\* ContractEventListenerConfig::default: the job is enabled, and an unset
\* contract id is replaced by a placeholder
default(env) ==
    [enabled |-> TRUE, contract_id |-> unwrap_or(env, "default-contract-id")]

\* start_contract_event_listener_job: the default configuration, a job built
\* from it and spawned; start() returns at once only when the job is disabled.
\* The function returns Ok whatever the environment holds
start_contract_event_listener_job(env) ==
    LET config == default(env) IN
    [ret |-> Ok("job"), config |-> config, started |-> config.enabled]

\* the process builds its listener from the environment
FromEnv ==
    /\ pc = "new"
    /\ last_op.op = "new"
    /\ \E env \in EnvContractIds :
         LET r == from_env(env) IN
         /\ pc' = IF r.ok THEN "new" ELSE "unconfigured"
         /\ last_op' = [op |-> "from_env", env |-> env, ret |-> r]
    /\ UNCHANGED <<latest, now, start_ledger, last_ledger, contract_events,
                   snapshots, init_ledger, attempted, ingested, stopped_at,
                   last_verdict, cancel_requested>>

\* the process starts the background job
StartJob ==
    /\ pc = "new"
    /\ last_op.op = "new"
    /\ \E env \in EnvContractIds :
         LET r == start_contract_event_listener_job(env) IN
         last_op' = [op |-> "start_job", env |-> env, ret |-> r.ret,
                     contract_id |-> r.config.contract_id, started |-> r.started]
    /\ UNCHANGED <<latest, now, start_ledger, last_ledger, pc, contract_events,
                   snapshots, init_ledger, attempted, ingested, stopped_at,
                   last_verdict, cancel_requested>>

(* ------------------------- environment actions ------------------------- *)
\* the chain closes a ledger, up to ledger `bound`
CloseLedgerTo(bound) ==
    /\ latest < bound
    /\ latest' = latest + 1
    /\ last_op' = [op |-> "env"]
    /\ UNCHANGED <<now, start_ledger, last_ledger, pc, contract_events, snapshots,
                   init_ledger, attempted, ingested, stopped_at, last_verdict,
                   cancel_requested>>

\* time passes: the clock starts at the last tick of a day and takes up to
\* `ticks` ticks
AdvanceClockTo(ticks) ==
    /\ now < DayLen - 1 + ticks
    /\ now' = now + 1
    /\ last_op' = [op |-> "env"]
    /\ UNCHANGED <<latest, start_ledger, last_ledger, pc, contract_events, snapshots,
                   init_ledger, attempted, ingested, stopped_at, last_verdict,
                   cancel_requested>>

AdvanceClock == AdvanceClockTo(MaxTime)
CloseLedger == CloseLedgerTo(MaxLedger)
CloseStoreLedger == CloseLedgerTo(MaxStoreLedger)

\* the listener, the chain and the clock
Next ==
    \/ StartListening
    \/ Poll
    \/ CloseLedger
    \/ AdvanceClock

Spec == Init /\ [][Next]_vars

\* the listener and the indexer on one event store
NextStore ==
    \/ StartListening
    \/ Poll
    \/ IndexEvent
    \/ UpdateStatus
    \/ Cleanup
    \/ CloseStoreLedger
    \/ AdvanceClock

SpecStore == Init /\ [][NextStore]_vars

\* a second ContractEventListener on the same database runs one iteration of
\* its loop: it passes an event of a closed ledger to process_event
Contended == {ChainSeq[1]}
OtherListenerEvent ==
    /\ \E event \in {x \in Contended : x.at <= latest} :
         LET one == process_event([ev |-> contract_events, sn |-> snapshots],
                                  event, "none", now)
         IN /\ contract_events' = one.db.ev
            /\ snapshots' = one.db.sn
            /\ ingested' = ingested \cup {event.id}
            /\ last_verdict' = VerdictsAfter(last_verdict, snapshots, <<event>>,
                                             <<one.what>>, 1)
            /\ last_op' = [op |-> "other_listener", id |-> event.id]
    /\ UNCHANGED <<latest, now, start_ledger, last_ledger, pc, init_ledger,
                   attempted, stopped_at, cancel_requested>>

\* the listener is stopped and started again while the chain goes on
NextRestart ==
    \/ StartListening
    \/ Poll
    \/ Restart
    \/ CloseStoreLedger
    \/ AdvanceClock

SpecRestart == Init /\ [][NextRestart]_vars

\* the listener and a shutdown request
NextCancel ==
    \/ StartListening
    \/ Poll
    \/ RequestCancel
    \/ CloseStoreLedger
    \/ AdvanceClock

SpecCancel == Init /\ [][NextCancel]_vars

\* two listeners and the indexer's status update on one event store
NextWriters ==
    \/ StartListening
    \/ Poll
    \/ OtherListenerEvent
    \/ UpdateStatus
    \/ CloseStoreLedger
    \/ AdvanceClock

SpecWriters == Init /\ [][NextWriters]_vars

\* the verifier alone: events and on-demand verifications in every spelling
NextVerify ==
    \/ VerifySnapshot
    \/ ProcessSpelled
    \/ ProcessLacking
    \/ GetEvents
    \/ AdvanceClock

SpecVerify == Init /\ [][NextVerify]_vars

\* the listener, the indexer and the missed-events job on one event store
NextJob ==
    \/ StartListening
    \/ Poll
    \/ IndexEvent
    \/ CheckMissed
    \/ CloseStoreLedger
    \/ AdvanceClock

SpecJob == Init /\ [][NextJob]_vars

\* the same, with a job that keeps running: its loop takes turn after turn
SpecJobRuns == Init /\ [][NextJob]_vars /\ WF_vars(CheckMissed)

\* the indexer and its readers: the store interface and the HTTP handlers
NextQuery ==
    \/ IndexPooled
    \/ Cleanup
    \/ QueryEvents
    \/ ListContractEvents
    \/ GetContractEvent
    \/ GetEventStats
    \/ GetSummary
    \/ GetVerificationSummary
    \/ AdvanceClock

\* the listener's configuration plays no part here: CONTRACT_EVENT_START_LEDGER
\* is unset
InitIndexer == Init /\ start_ledger = None

SpecQuery == InitIndexer /\ [][NextQuery]_vars

\* a caller that indexes the events as they come, with no status yet
IndexUnverified ==
    IndexEventOf(IndexInputsOf(QueryPool \cup {ChainSeq[3]}, {None}))

\* every read operation of the indexer and of the handlers, failing or not,
\* on a store that is being written
NextReads ==
    \/ IndexUnverified
    \/ QueryEvents
    \/ ListContractEvents
    \/ GetContractEvent
    \/ GetEventStats
    \/ GetSummary
    \/ GetVerificationSummary
    \/ GetEventsForEpoch
    \/ GetLatestSnapshots
    \/ SearchByHashPrefix
    \/ ReadFails
    \/ AdvanceClock

SpecReads == InitIndexer /\ [][NextReads]_vars

\* the indexer and its retention job over more than a day: rows are written,
\* the clock moves on, old rows are cleaned up
NextRetention ==
    \/ IndexPooled
    \/ Cleanup
    \/ AdvanceClockTo(MaxTime + 1)

SpecRetention == InitIndexer /\ [][NextRetention]_vars

\* the start paths of the process, then the listener and the job at work
NextStartup ==
    \/ FromEnv
    \/ StartJob
    \/ StartListening
    \/ Poll
    \/ CheckMissed
    \/ CloseStoreLedger
    \/ AdvanceClock

SpecStartup == Init /\ [][NextStartup]_vars

(* ------------------------------ claims --------------------------------- *)
Rows == BagToSet(contract_events)
Terminal(status) == status \in {Some("verified"), Some("failed")}
DbErrors == {"store_err", "query_err", "update_err"}

\* the last operation was a tick whose getEvents request succeeded
PolledRange ==
    /\ last_op.op = "poll"
    /\ IsSome(last_op.request)
    /\ IsSome(last_op.ret)

\* the events of the chain in the range the last tick asked for
RangeEvents == SeqToSet(InRange(Unwrap(last_op.request)[1], Unwrap(last_op.request)[2]))

\* a SNAP_SUB event whose payload and ledger decode
Decodable(e) ==
    /\ "SNAP_SUB" \in SeqToSet(e.topic)
    /\ IsSome(e.value.epoch) /\ IsSome(e.value.hash) /\ IsSome(e.value.timestamp)
    /\ IsSome(parse_u64(e.ledger))

\* C1: once an event row's verification_status is 'verified' or 'failed', a
\* re-ingestion of the same id (a tick of the listener or index_event) never
\* leaves that row with a null or 'pending' status.
C1_VerdictMonotonic ==
    [][ last_op'.op \in {"poll", "index_event"} =>
          \A r \in Rows : Terminal(r.verification_status) =>
             \A q \in BagToSet(contract_events') :
                q.id = r.id => Terminal(q.verification_status) ]_vars

\* C2: after a tick without database errors, every decodable SNAP_SUB event of
\* the range whose epoch has a backend snapshot has its verdict on its event
\* row ('verified' iff the hashes are equal, else 'failed') and on the
\* snapshot row, and the stats count it.
C2_VerdictOnEventRow ==
    (PolledRange /\ last_op.errors \cap DbErrors = {}) =>
       \A e \in RangeEvents :
          (Decodable(e) /\ Unwrap(e.value.epoch) \in DOMAIN snapshots) =>
             LET backend == snapshots[Unwrap(e.value.epoch)]
                 verdict == IF backend.hash = Unwrap(e.value.hash)
                            THEN "verified" ELSE "failed"
                 stats == get_event_stats(contract_events, now)
             IN /\ Terminal(backend.verification_status)
                /\ \E r \in Rows : r.id = e.id /\ r.verification_status = Some(verdict)
                /\ verdict = "verified" => stats.verified_snapshots >= 1
                /\ verdict = "failed" => stats.failed_verifications >= 1

\* C3: the event store holds at most one row per id, and stats.total_events
\* is the number of distinct ids ingested and not yet reaped.
C3_RowUniqueness ==
    /\ \A r \in Rows : contract_events[r] = 1
    /\ \A r, q \in Rows : r.id = q.id => r = q
    /\ get_event_stats(contract_events, now).total_events = Cardinality(ingested)
    /\ RowIds(contract_events) = ingested

\* C3 witness: one batch delivered the same id twice and one row is stored
C3_Witness ==
    /\ PolledRange
    /\ last_op.request = Some(<<1, 1>>)
    /\ last_op.tried = 2
    /\ last_op.errors = {}
    /\ get_event_stats(contract_events, now).total_events = 1

\* C4: upserting an event again, with no other write in between, leaves its
\* row as it was in every column, created_at included: a tick that stores the
\* redelivered event over its own row does not change that row.
C4_UpsertIdempotent ==
    [][ ( /\ last_op'.op = "poll"
          /\ IsSome(last_op'.request)
          /\ IsSome(last_op'.ret)
          /\ "store_err" \notin last_op'.errors
          /\ last_op'.tried > Len(InRange(Unwrap(last_op'.request)[1],
                                          Unwrap(last_op'.request)[2]))
          /\ \A e \in Redelivered :
                /\ e.at < Unwrap(last_op'.request)[1]
                /\ RowsOf(contract_events, e.id) # {} )
        => \A e \in Redelivered :
              RowsOf(contract_events', e.id) = RowsOf(contract_events, e.id) ]_vars

\* C5: when a tick returns Ok after asking getEvents for [last_ledger+1,
\* current], last_ledger is current afterwards (at least the range's upper
\* bound), and without database errors every decodable SNAP_SUB event of the
\* range has its row.
C5_CursorProgress ==
    PolledRange =>
       /\ last_ledger = Unwrap(last_op.current)
       /\ last_ledger >= Unwrap(last_op.request)[2]
       /\ last_op.errors \cap DbErrors = {} =>
             \A e \in RangeEvents : Decodable(e) => e.id \in RowIds(contract_events)

\* C5 witness: a range of several ledgers with two events, both rows stored
C5_Witness ==
    /\ PolledRange
    /\ Unwrap(last_op.request)[2] > Unwrap(last_op.request)[1]
    /\ last_ledger = Unwrap(last_op.request)[2]
    /\ Cardinality(RowIds(contract_events)) >= 2

\* C6: in a tick whose getEvents request succeeded every event of the batch
\* is passed to process_event, whatever failed before it, and last_ledger is
\* current at the end however many events failed.
C6_FailuresDoNotStall ==
    PolledRange =>
       /\ last_op.tried >= Cardinality(RangeEvents)
       /\ RangeEvents \subseteq attempted
       /\ last_ledger = Unwrap(last_op.current)

\* C6 witness: the first event failed, a later one of the batch was stored
C6_Witness ==
    /\ PolledRange
    /\ "store_err" \in last_op.errors
    /\ last_op.tried >= 2
    /\ "e1" \notin RowIds(contract_events)
    /\ "e2" \in RowIds(contract_events)
    /\ last_ledger = Unwrap(last_op.current)

\* C7 as stated: a tick in which storing an event failed does not advance
\* last_ledger.
C7_StoreErrorKeepsCursor ==
    [][ (last_op'.op = "poll" /\ "store_err" \in last_op'.errors)
        => last_ledger' = last_ledger ]_vars

\* C7 amended: a tick in which storing an event failed still passes every
\* event of the batch to process_event and advances last_ledger to current,
\* so the range is not asked for again.
C7_StoreErrorAdvancesCursor ==
    [][ (last_op'.op = "poll" /\ "store_err" \in last_op'.errors)
        => /\ last_ledger' = Unwrap(last_op'.current)
           /\ last_ledger' > last_ledger
           /\ last_ledger' >= Unwrap(last_op'.request)[2]
           /\ Unwrap(last_op'.request)[1] = last_ledger + 1
           /\ last_op'.tried >= Len(InRange(last_ledger + 1, last_ledger')) ]_vars

\* C7 witness: every store of the batch failed and the cursor moved on
C7_Witness ==
    /\ PolledRange
    /\ last_op.errors = {"store_err"}
    /\ contract_events = EmptyBag
    /\ last_ledger = Unwrap(last_op.request)[2]
    /\ last_ledger >= 2

C9_NoOpTick ==
    [][ ( /\ last_op'.op = "poll"
          /\ IsSome(last_op'.current)
          /\ Unwrap(last_op'.current) <= last_ledger )
        => /\ last_ledger' = last_ledger
           /\ last_op'.request = None
           /\ last_op'.tried = 0
           /\ contract_events' = contract_events
           /\ snapshots' = snapshots ]_vars

\* C9 witness: a tick saw the ledger regress below a cursor that has rows
C9_Witness ==
    /\ last_op.op = "poll"
    /\ IsSome(last_op.current)
    /\ Unwrap(last_op.current) < last_ledger
    /\ last_op.request = None
    /\ contract_events # EmptyBag

\* C10: start_listening asks latest_ledger() exactly when start_ledger is
\* unset; a configured start_ledger, 0 included, is the starting cursor.
C10_InitCursor ==
    last_op.op = "start" =>
       /\ last_op.asked <=> ~IsSome(start_ledger)
       /\ (IsSome(start_ledger) /\ ~last_op.failed) => last_ledger = Unwrap(start_ledger)

(* --------------------------- claims C11..C20 --------------------------- *)
Max(a, b) == IF a >= b THEN a ELSE b
Count(seq, x) == Cardinality({i \in DOMAIN seq : seq[i] = x})
EpochOf(e) == Unwrap(e.value.epoch)
HashOf(e) == Unwrap(e.value.hash)

\* the last operation was a tick that asked getEvents for a range, and in
\* which no event failed before the look-up of its backend snapshot was done
LookedUp ==
    /\ PolledRange
    /\ last_op.errors \cap {"store_err", "query_err"} = {}

\* C11: after the listener ended with cursor L and was started again, the
\* first ledger asked of getEvents (the one asked while the cursor is still
\* the one start_listening adopted) is max(L, start_ledger, 0) + 1.
C11_ResumeLedger ==
    [][ ( /\ IsSome(stopped_at)
          /\ IsSome(init_ledger)
          /\ last_ledger = Unwrap(init_ledger)
          /\ last_op'.op = "poll"
          /\ IsSome(last_op'.request) )
        => Unwrap(last_op'.request)[1] =
              Max(Max(Unwrap(stopped_at), unwrap_or(start_ledger, 0)), 0) + 1 ]_vars

\* C12: a tick sends exactly one VerificationFailed alert (Critical, the
\* epoch, expected_hash the backend hash, actual_hash the on-chain hash) for
\* each event whose hash differs from the backend hash of its epoch, and no
\* VerificationFailed alert for an event whose hash equals it.
C12_MismatchAlert ==
    LookedUp =>
       \A e \in RangeEvents :
          (Decodable(e) /\ EpochOf(e) \in DOMAIN snapshots) =>
             LET backend_hash == snapshots[EpochOf(e)].hash
                 alert == alert_verification_failed(EpochOf(e), backend_hash, HashOf(e))
                 same == {x \in RangeEvents : Decodable(x) /\ EpochOf(x) = EpochOf(e)
                                               /\ HashOf(x) = HashOf(e)}
             IN Count(last_op.alerts, alert) =
                   (IF backend_hash # HashOf(e) THEN Cardinality(same) ELSE 0)

\* C13: a tick sends exactly one MissingSnapshot alert (Warning, the epoch) for
\* each event it verifies whose epoch has no row in snapshots.
C13_MissingSnapshotAlert ==
    LookedUp =>
       \A e \in RangeEvents :
          (Decodable(e) /\ EpochOf(e) \notin DOMAIN snapshots) =>
             Count(last_op.alerts, alert_missing_snapshot(EpochOf(e))) =
                Cardinality({x \in RangeEvents : Decodable(x) /\ EpochOf(x) = EpochOf(e)})

C15_DecodeErrorsAdvance ==
    [][ ( /\ last_op'.op = "poll"
          /\ (last_op'.err = "deserialize" \/ "decode_err" \in last_op'.errors) )
        => /\ last_ledger' = Unwrap(last_op'.current)
           /\ last_ledger' >= Unwrap(last_op'.request)[2]
           /\ last_ledger' > last_ledger ]_vars

\* C16: a failing latest_ledger() at initialisation does not end the listener,
\* and a tick in which latest_ledger() or get_events() fails leaves the loop
\* running, the cursor and both tables as they were.
C16_RpcFailureNotFatal ==
    [][ /\ (last_op'.op = "start" /\ last_op'.failed) => pc' # "stopped"
        /\ (last_op'.op = "poll" /\ last_op'.err \in {"latest", "events"})
              => /\ pc' = "running"
                 /\ last_ledger' = last_ledger
                 /\ contract_events' = contract_events
                 /\ snapshots' = snapshots ]_vars

\* C17: the verdict on the snapshots row of an epoch is the verdict of the
\* last event of that epoch, in the order the RPC returned the events, whose
\* verification completed; an epoch none was verified for has no verdict.
C17_LastVerdictWins ==
    \A ep \in DOMAIN snapshots : snapshots[ep].verification_status = last_verdict[ep]

\* C17 witness: one batch held e1 (hash equal) then e2 (hash differs) of
\* epoch 1, and the verdict of epoch 1 is that of e2
C17_Witness ==
    /\ PolledRange
    /\ last_op.request = Some(<<1, 2>>)
    /\ last_op.errors = {}
    /\ {"e1", "e2"} \subseteq RowIds(contract_events)
    /\ last_verdict[1] = Some("failed")

\* C18: whichever writer takes a step (a listener, a second listener, the
\* indexer's status update), a row whose status is 'verified' or 'failed'
\* keeps a status of these two, and a listener's write leaves the non-verdict
\* columns of the event as that listener decoded them.
C18_ConcurrentWriters ==
    [][ /\ \A r \in Rows : Terminal(r.verification_status) =>
              \A q \in BagToSet(contract_events') :
                 q.id = r.id => Terminal(q.verification_status)
        /\ last_op'.op = "other_listener" =>
              \A q \in RowsOf(contract_events', last_op'.id) :
                 /\ q.created_at = now
                 /\ q.transaction_hash = last_op'.id ]_vars

\* C19: a tick changes no row whose id is not among the events delivered to
\* it, and the indexer's status update writes the verdict columns of a row
\* only while that row has no verdict.
C19_OlderRowsUntouched ==
    [][ /\ (last_op'.op = "poll" /\ IsSome(last_op'.request) /\ IsSome(last_op'.ret)) =>
              LET range == InRange(Unwrap(last_op'.request)[1], Unwrap(last_op'.request)[2])
                  delivered == {e.id : e \in SeqToSet(range) \cup Redelivered}
              IN \A r \in Rows :
                    r.id \notin delivered =>
                       /\ r \in BagToSet(contract_events')
                       /\ contract_events'[r] = contract_events[r]
        /\ last_op'.op = "update_status" =>
              \A r \in Rows : \A q \in BagToSet(contract_events') :
                 ( /\ q.id = r.id
                   /\ \/ q.verification_status # r.verification_status
                      \/ q.verified_at # r.verified_at )
                 => ~Terminal(r.verification_status) ]_vars

\* C20: once shutdown has been requested, the loop of start_listening runs
\* no further tick.
C20_NoTickAfterCancel ==
    [][ cancel_requested => last_op'.op # "poll" ]_vars

(* --------------------------- claims C21..C30 --------------------------- *)
\* C21: hash normalization: verifying (epoch, H) gives the verdict and the
\* persisted verification_status that verifying (epoch, lowercase(H)) gives, so
\* an event whose payload hash is the uppercase spelling of the backend hash
\* is recorded as verified
C21_HashNormalization ==
    [][last_op'.op \in {"verify_snapshot", "process_event"} /\ IsSome(last_op'.hash)
       => LET lowered == verify_snapshot_with_backend(
                             [ev |-> contract_events, sn |-> snapshots],
                             last_op'.epoch, Lower(Unwrap(last_op'.hash)), "none", now)
          IN /\ last_op'.what = lowered.what
             /\ snapshots' = lowered.db.sn]_vars

\* the rows created last (no row of the store has a later created_at)
NewestRows == {r \in Rows : \A x \in Rows : ~CreatedLater(x, r)}

\* C22: check_missed starts from max(ledger) + 1 over all rows of the event
\* store (the highest ledger stored, not the ledger of the row created last),
\* and from the configured start_ledger only when the store is empty; checked
\* on stores in which one row is the newest, so that ties play no part
C22_CheckMissedStart ==
    [][last_op'.op = "check_missed" /\ Cardinality(NewestRows) <= 1
       => IF Rows = {}
          THEN last_op'.start = unwrap_or(start_ledger, 0)
          ELSE \E top \in Rows :
                 /\ \A r \in Rows : r.ledger <= top.ledger
                 /\ last_op'.start = top.ledger + 1]_vars

\* the listener went past event e without storing it
Skipped(e) ==
    /\ pc = "running"
    /\ e \in attempted
    /\ e.at <= last_ledger
    /\ e.id \notin RowIds(contract_events)

\* C23: missed events are recoverable: an event the listener skipped (its
\* processing failed but the cursor went past its ledger) is eventually stored
\* by the check_missed job, provided the job keeps running
C23_MissedRecovered ==
    \A e \in {x \in ChainEvents : Decodable(x)} :
        [](Skipped(e) => <>(e.id \in RowIds(contract_events)))

\* the ten columns of a row that a query returns
Returned(r) == [f \in (DOMAIN r) \ {"verified_at"} |-> r[f]]

\* the reference filter: row r satisfies every field of F that is set
Satisfies(r, F) ==
    /\ IsSome(F.contract_id) => Some(r.contract_id) = F.contract_id
    /\ IsSome(F.event_type) => Some(r.event_type) = F.event_type
    /\ IsSome(F.epoch) => r.epoch = F.epoch
    /\ IsSome(F.hash) => r.hash = F.hash
    /\ IsSome(F.ledger_range) =>
         Unwrap(F.ledger_range)[1] <= r.ledger /\ r.ledger <= Unwrap(F.ledger_range)[2]
    /\ IsSome(F.time_range) =>
         Unwrap(F.time_range)[1] <= r.created_at /\ r.created_at <= Unwrap(F.time_range)[2]
    /\ IsSome(F.verification_status) => r.verification_status = F.verification_status

\* C24: query completeness: query(F) without pagination returns exactly the
\* rows that satisfy every set field of F (fields ANDed, range bounds
\* inclusive), each of them once
C24_QueryCompleteness ==
    last_op.op = "query_events" /\ ~IsSome(last_op.query.limit)
    => LET expected == {Returned(r) : r \in {x \in Rows : Satisfies(x, last_op.query)}}
       IN /\ SeqToSet(last_op.ret) = expected
          /\ Len(last_op.ret) = Cardinality(expected)

\* a query with two filters set returned a row whose ledger is the upper
\* bound of the range, and left a row of the store out
C24_Witness ==
    /\ last_op.op = "query_events"
    /\ last_op.query.epoch = Some(2)
    /\ last_op.query.ledger_range = Some(<<2, 2>>)
    /\ Len(last_op.ret) = 1
    /\ Cardinality(Rows) = 3

\* C25: pagination bound: a query returns at most `limit` rows, where limit is
\* 50 when the caller gives none and 1000 when the caller asks for more; this
\* holds of the store-level query and of GET /analytics/contract-events
C25_PaginationBound ==
    last_op.op \in {"query_events", "list_contract_events"}
    => LET limit == IF ~IsSome(last_op.asked) THEN 50
                    ELSE IF Unwrap(last_op.asked) > 1000 THEN 1000
                    ELSE Unwrap(last_op.asked)
       IN /\ last_op.limit = Some(limit)
          /\ Len(last_op.ret) <= limit

\* the rows a verification summary is about
Eligible == {r \in Rows : r.event_type = "SNAP_SUB" /\ IsSome(r.epoch)}

\* entry s of a summary reports row r
Reports(s, r) ==
    /\ s.epoch = Unwrap(r.epoch)
    /\ s.hash = r.hash
    /\ s.ledger = r.ledger
    /\ s.created_at = r.created_at
    /\ s.transaction_hash = r.transaction_hash
    /\ s.verification_status = IF r.verification_status = None THEN "pending"
                               ELSE Unwrap(r.verification_status)

\* ret is a summary of the last n epochs of the store
SummaryOfLast(ret, n) ==
    /\ Len(ret) <= n
    /\ Len(ret) = IF Cardinality(Eligible) < n THEN Cardinality(Eligible) ELSE n
    /\ \A i \in DOMAIN ret : \E r \in Eligible : Reports(ret[i], r)
    /\ \A i, j \in DOMAIN ret : i < j => ret[i].epoch >= ret[j].epoch
    /\ \A r \in Eligible :
         (\A i \in DOMAIN ret : ~Reports(ret[i], r))
         => \A i \in DOMAIN ret : ret[i].epoch >= Unwrap(r.epoch)

C27_UpdateStatus ==
    [][last_op'.op = "update_status"
       => LET id == last_op'.id
              status == last_op'.status
              again == update_status(contract_events', id, status, now' + 1)
          IN /\ last_op'.ret = "Ok"
             /\ IF RowsOf(contract_events, id) # {}
                THEN /\ RowsOf(contract_events', id) # {}
                     /\ \A r \in RowsOf(contract_events', id) :
                          r.verification_status = Some(status)
                     /\ DeleteId(contract_events', id) = DeleteId(contract_events, id)
                     /\ \A r \in RowsOf(again, id) : r.verification_status = Some(status)
                     /\ DeleteId(again, id) = DeleteId(contract_events, id)
                ELSE contract_events' = contract_events]_vars

\* the status of e1 was set to 'failed' over another status, next to a row
\* that kept its own
C27_Witness ==
    /\ last_op.op = "update_status"
    /\ last_op.status = "failed"
    /\ \E r \in Rows : r.id = last_op.id /\ r.verification_status = Some("failed")
    /\ \E r \in Rows : r.id # last_op.id

\* C28: store round-trip: after index_event(e), get_event_by_id(e.id) returns
\* Some row whose id, contract_id, event_type, epoch, hash, timestamp, ledger,
\* transaction_hash and verification_status are those of e, and a query by e's
\* event_type includes it; get_event_by_id of an id never ingested, or reaped,
\* returns None, which the handler maps to 404
C28_RoundTrip ==
    [][/\ last_op'.op = "index_event"
          => LET e == last_op'.event IN
             /\ \A found \in get_event_by_id(contract_events', e.id) :
                  /\ IsSome(found)
                  /\ \A f \in {"id", "contract_id", "event_type", "epoch", "hash",
                               "timestamp", "ledger", "transaction_hash",
                               "verification_status"} : Unwrap(found)[f] = e[f]
             /\ \A ret \in query_events(contract_events',
                                        [DefaultQuery EXCEPT !.event_type = Some(e.event_type)]) :
                  \E i \in DOMAIN ret : ret[i].id = e.id
       /\ last_op'.op = "get_contract_event" /\ last_op'.id \notin ingested'
          => /\ last_op'.response.body = None
             /\ last_op'.response.status = 404]_vars

\* an event was indexed over its own older row with another status
C28_Witness ==
    /\ last_op.op = "index_event"
    /\ last_op.event.verification_status = Some("failed")
    /\ last_op.event.created_at > DayLen - 1
    /\ Cardinality(Rows) = 3

\* C29: stats() reflects the store exactly: total_events is the number of
\* rows, verified_snapshots and failed_verifications are the numbers of rows
\* with status 'verified' and 'failed' (their sum never exceeds total_events),
\* latest_epoch and latest_ledger are the maxima over all rows, and on an empty
\* store total_events is 0 with both maxima absent
C29_StatsExact ==
    last_op.op = "get_event_stats"
    => LET stats == last_op.stats
           epochs == {Unwrap(r.epoch) : r \in {x \in Rows : IsSome(x.epoch)}}
       IN /\ stats.total_events = Cardinality(Rows)
          /\ stats.verified_snapshots =
               Cardinality({r \in Rows : r.verification_status = Some("verified")})
          /\ stats.failed_verifications =
               Cardinality({r \in Rows : r.verification_status = Some("failed")})
          /\ stats.verified_snapshots + stats.failed_verifications <= stats.total_events
          /\ \A r \in Rows : Some(r.ledger) # stats.latest_ledger
                             => r.ledger < Unwrap(stats.latest_ledger)
          /\ \A n \in epochs : Some(n) # stats.latest_epoch => n < Unwrap(stats.latest_epoch)
          /\ IsSome(stats.latest_ledger) => \E r \in Rows : r.ledger = Unwrap(stats.latest_ledger)
          /\ IsSome(stats.latest_epoch) => Unwrap(stats.latest_epoch) \in epochs
          /\ Rows = {} => /\ stats.total_events = 0
                          /\ stats.latest_epoch = None
                          /\ stats.latest_ledger = None

\* stats of a store with a verified row, a failed row and a row without status
C29_Witness ==
    /\ last_op.op = "get_event_stats"
    /\ last_op.stats.total_events = 3
    /\ last_op.stats.verified_snapshots = 1
    /\ last_op.stats.failed_verifications = 1
    /\ last_op.stats.latest_epoch = Some(2)

\* C30: cleanup(days) deletes exactly the rows whose created_at is earlier
\* than now minus `days` days, returns the number of rows deleted, and leaves
\* every other row and the snapshots table unchanged
C30_CleanupExact ==
    [][last_op'.op = "cleanup"
       => LET cutoff == now - last_op'.days * DayLen
              old == Where(contract_events, LAMBDA r : r.created_at < cutoff)
          IN /\ contract_events' = Where(contract_events, LAMBDA r : ~(r.created_at < cutoff))
             /\ last_op'.ret = BagCardinality(old)
             /\ snapshots' = snapshots]_vars

(* --------------------------- claims C31..C40 --------------------------- *)
\* C31: the query facade never writes: every read operation (query, by_id,
\* for_epoch, latest_snapshots, search_hash_prefix, stats,
\* verification_summary and the handlers built on them) leaves the
\* contract_events and snapshots tables and the listener cursor unchanged,
\* whether it succeeds or fails
C31_ReadsNeverWrite ==
    [][last_op'.op \in ReadOps \cup {"read_failed"}
       => /\ contract_events' = contract_events
          /\ snapshots' = snapshots
          /\ last_ledger' = last_ledger]_vars

\* a query answered with rows of a store of three
C31_Witness ==
    /\ last_op.op = "query_events"
    /\ Len(last_op.ret) = 2
    /\ Cardinality(Rows) = 3

\* text begins with prefix, character for character
BeginsWith(text, prefix) ==
    Len(prefix) <= Len(text) /\ SubSeq(text, 1, Len(prefix)) = prefix

\* C32: search_hash_prefix(prefix, limit) returns at most `limit` rows and
\* exactly rows whose hash begins with the literal string `prefix`: no
\* character of the prefix is read as SQL or as a pattern wildcard; the table
\* is left intact
C32_LiteralPrefix ==
    [][last_op'.op = "search_by_hash_prefix"
       => LET expected == {Returned(r) : r \in {x \in Rows :
                              IsSome(x.hash)
                              /\ BeginsWith(TextOf(Unwrap(x.hash)), last_op'.prefix)}}
          IN /\ Len(last_op'.ret) <= last_op'.limit
             /\ SeqToSet(last_op'.ret) \subseteq expected
             /\ Cardinality(expected) <= last_op'.limit
                  => SeqToSet(last_op'.ret) = expected
             /\ contract_events' = contract_events]_vars

NotFoundAnswer(op) ==
    /\ IsSome(op.body.error)
    /\ contains(Unwrap(op.body.error), "not found")

\* C34: "not found" is an empty result, not an error: for get_events as for
\* simulate_get_snapshot an RPC error object whose message contains "not
\* found" yields an empty result (no events / None); verify_snapshot(epoch) for
\* an epoch the contract does not hold returns false and changes no stored state
C34_NotFoundIsEmpty ==
    [][/\ last_op'.op = "get_events" /\ NotFoundAnswer(last_op')
          => last_op'.ret = Ok(<<>>)
       /\ last_op'.op = "verify_snapshot" /\ NotFoundAnswer(last_op')
          => /\ last_op'.what = "not_on_chain"
             /\ snapshots' = snapshots
             /\ contract_events' = contract_events]_vars

\* C35: a configuration error is fatal: with SNAPSHOT_CONTRACT_ID unset no
\* listener is built by from_env and no listener job is started by
\* start_contract_event_listener_job, so nothing runs under a placeholder
\* contract id
C35_ConfigErrorFatal ==
    [][/\ last_op'.op = "from_env" /\ last_op'.env = None
          => ~last_op'.ret.ok /\ pc' = "unconfigured"
       /\ last_op'.op = "start_job" /\ last_op'.env = None
          => ~last_op'.ret.ok /\ ~last_op'.started]_vars

\* the event the chain holds under an id
EventOf(id) == CHOOSE e \in ChainEvents : e.id = id

\* one of the topics of the event is SNAP_SUB
IsSnapshotEvent(e) == \E k \in DOMAIN e.topic : e.topic[k] = "SNAP_SUB"

\* the places of the non-snapshot events in the batch of a tick
OtherPlaces(op) == {i \in DOMAIN op.ids : ~IsSnapshotEvent(EventOf(op.ids[i]))}

\* C36: non-snapshot events are ignored: for an event none of whose topics is
\* SNAP_SUB process_event returns Ok, no row of the event store is written for
\* it, no snapshot row changes on its behalf and nothing is verified; the
\* event is counted as processed and the cursor advances past it
C36_OthersIgnored ==
    [][last_op'.op = "poll" /\ OtherPlaces(last_op') # {}
       => /\ \A i \in OtherPlaces(last_op') :
               /\ last_op'.results[i] = "ignored"
               /\ last_op'.ids[i] \notin RowIds(contract_events')
               /\ last_op'.ids[i] \notin ingested'
               /\ last_ledger' >= EventOf(last_op'.ids[i]).at
          /\ IsSome(last_op'.ret)
          /\ Unwrap(last_op'.ret) >= Cardinality(OtherPlaces(last_op'))
          /\ last_op'.alerts = <<>>
          /\ \A id \in RowIds(contract_events') \ RowIds(contract_events) :
               IsSnapshotEvent(EventOf(id))
          /\ \A ep \in DOMAIN snapshots :
               snapshots'[ep] # snapshots[ep]
               => \E j \in DOMAIN last_op'.ids \ OtherPlaces(last_op') :
                    /\ EventOf(last_op'.ids[j]).value.epoch = Some(ep)
                    /\ last_op'.results[j] \in {"verified", "mismatch"}]_vars

\* a tick has passed a non-snapshot event to process_event
C36_Witness ==
    /\ last_op.op = "poll"
    /\ \E i \in DOMAIN last_op.ids :
         /\ last_op.ids[i] = "e4"
         /\ last_op.results[i] = "ignored"
    /\ last_op.ret = Some(Len(last_op.ids))
    /\ last_ledger >= 2
    /\ "e2" \in RowIds(contract_events)

\* C37: cursor monotonicity: over any sequence of ticks (successful, failed or
\* no-op, the RPC free to report any latest ledger, a lower one included)
\* last_ledger never decreases after initialisation
C37_CursorMonotone ==
    [][pc = "running" /\ pc' = "running" => last_ledger' >= last_ledger]_vars

\* a tick was answered with a latest ledger below the cursor
C37_Witness ==
    /\ pc = "running"
    /\ last_op.op = "poll"
    /\ IsSome(last_op.current)
    /\ Unwrap(last_op.current) < last_ledger
    /\ IsSome(init_ledger)
    /\ last_ledger > Unwrap(init_ledger)

VerifyInvoked == {"verified", "mismatch", "no_snapshot", "query_err", "update_err"}

\* C39: persist before verify: an event for which verification was invoked
\* has its row in the event store; an event whose store write failed (at
\* every delivery of it in the batch) has no row written and no verification,
\* so a verdict is written for an epoch only on behalf of an event of the
\* batch that was stored
C39_PersistBeforeVerify ==
    [][last_op'.op = "poll" /\ last_op' # last_op
       => /\ \A i \in DOMAIN last_op'.ids :
               /\ last_op'.results[i] \in VerifyInvoked
                  => last_op'.ids[i] \in RowIds(contract_events')
               /\ /\ last_op'.results[i] = "store_err"
                  /\ \A j \in DOMAIN last_op'.ids :
                       last_op'.ids[j] = last_op'.ids[i]
                       => last_op'.results[j] \notin VerifyInvoked
                  => RowsOf(contract_events', last_op'.ids[i])
                       = RowsOf(contract_events, last_op'.ids[i])
          /\ \A ep \in DOMAIN snapshots :
               snapshots'[ep] # snapshots[ep]
               => \E j \in DOMAIN last_op'.ids :
                    /\ EventOf(last_op'.ids[j]).value.epoch = Some(ep)
                    /\ last_op'.results[j] \in {"verified", "mismatch"}
                    /\ last_op'.ids[j] \in RowIds(contract_events')]_vars

\* the store write of an event failed: it has no row, and the snapshot of its
\* epoch has no verdict
C39_Witness ==
    /\ last_op.op = "poll"
    /\ last_op.ids = <<"e1">>
    /\ last_op.results = <<"store_err">>
    /\ "e1" \notin RowIds(contract_events)
    /\ snapshots[1].verification_status = None

\* C40: offset needs a limit: query_events applies an offset only when a
\* limit is also given; a query with offset = k and no limit returns the same
\* rows, from the first, as the query with no offset
C40_OffsetNeedsLimit ==
    [][/\ last_op'.op = "query_events"
       /\ ~IsSome(last_op'.query.limit)
       /\ IsSome(last_op'.query.offset)
       => /\ last_op'.ret \in query_events(contract_events,
                                           [last_op'.query EXCEPT !.offset = None])
          /\ {last_op'.ret[i].id : i \in DOMAIN last_op'.ret}
               = {r.id : r \in {x \in BagToSet(contract_events) :
                                  Matches(x, last_op'.query)}}]_vars

\* a query with an offset and no limit returned every row, two at least
C40_Witness ==
    /\ last_op.op = "query_events"
    /\ last_op.query.limit = None
    /\ last_op.query.offset = Some(1)
    /\ Len(last_op.ret) >= 2
    /\ Len(last_op.ret) = Cardinality(RowIds(contract_events))

====
